---- MODULE Spec2Model ----
(***************************************************************************)
(* tastypie/validation.py: the no-op Validation stub and FormValidation,   *)
(* the adapter that feeds a bundle to a Django form.                       *)
(*                                                                         *)
(* Python values are tagged pairs <<type, payload>>:                       *)
(*   <<"none", 0>>          None                                           *)
(*   <<"int", n>>           an integer                                     *)
(*   <<"str", s>>           a string, s a sequence of characters           *)
(*   <<"list", items>>      a list, items a sequence of values             *)
(*   <<"dict", f>>          a dict, f a function from keys to values       *)
(*   <<"model", pk>>        a django.db.models.Model instance, pk a value  *)
(*   <<"bundle", f>>        a tastypie Bundle, f its .data                 *)
(***************************************************************************)
EXTENDS Integers, Sequences, FiniteSets, TLC

VARIABLES validator, bundle, call

vars == <<validator, bundle, call>>

-----------------------------------------------------------------------------
(* Bounds of the model *)

\* longest string drawn as an input of _prepare_related_value
MaxStrLen == 5

\* deepest nesting of lists drawn as an input of _prepare_related_value
MaxDepth == 2

-----------------------------------------------------------------------------
(* Python values *)

NoneV == <<"none", 0>>

IntV(n) == <<"int", n>>

StrV(s) == <<"str", s>>

ListV(items) == <<"list", items>>

DictV(f) == <<"dict", f>>

ModelV(pk) == <<"model", pk>>

BundleV(f) == <<"bundle", f>>

EmptyMap == <<>>

\* dict.update: the entries of d2 win over those of d1
DictUpdate(d1, d2) ==
    [k \in (DOMAIN d1) \cup (DOMAIN d2) |-> IF k \in DOMAIN d2 THEN d2[k] ELSE d1[k]]

\* the dict with the single entry k: v
Entry(k, v) == [x \in {k} |-> v]

-----------------------------------------------------------------------------
(* str.strip('/') and str.split('/') *)

RECURSIVE LStrip(_)
LStrip(s) == IF s # <<>> /\ Head(s) = "/" THEN LStrip(Tail(s)) ELSE s

RECURSIVE RStrip(_)
RStrip(s) ==
    IF s # <<>> /\ s[Len(s)] = "/" THEN RStrip(SubSeq(s, 1, Len(s) - 1)) ELSE s

\* str.lstrip('/') in place of str.strip('/')
Strip_LeadingOnly(s) == LStrip(s)

Strip(s) == RStrip(LStrip(s))

RECURSIVE Split(_)
Split(s) ==
    IF \A i \in 1..Len(s) : s[i] # "/"
    THEN <<s>>
    ELSE LET i == CHOOSE j \in 1..Len(s) :
                      s[j] = "/" /\ \A k \in 1..(j - 1) : s[k] # "/"
         IN  <<SubSeq(s, 1, i - 1)>> \o Split(SubSeq(s, i + 1, Len(s)))

\* seq[-1]
LastOf(seq) == seq[Len(seq)]

-----------------------------------------------------------------------------
(* FormValidation._prepare_related_value *)

RECURSIVE _prepare_related_value(_)
_prepare_related_value(value) ==
    IF value[1] = "list"
    THEN ListV([i \in 1..Len(value[2]) |-> _prepare_related_value(value[2][i])])
    ELSE IF value[1] = "model"
    THEN value[2]
    ELSE IF value[1] = "dict" /\ "id" \in DOMAIN value[2]
    THEN value[2]["id"]
    ELSE IF value[1] = "str"
    THEN StrV(LastOf(Split(Strip(value[2]))))
    ELSE value

-----------------------------------------------------------------------------
(* The collaborators: form classes, resources, bundles *)

\* the isinstance test left out: every declared field is normalized
IsRelatedField_EveryField(field) == TRUE

\* isinstance(field, (ModelChoiceField, ModelMultipleChoiceField))
IsRelatedField(field) == field \in {"ModelChoiceField", "ModelMultipleChoiceField"}

\* a plain django.forms.Form
NoteForm ==
    [name |-> "NoteForm", model_form |-> FALSE,
     base_fields |-> [title |-> "CharField", category |-> "ModelChoiceField"]]

\* a django.forms.ModelForm
NoteModelForm ==
    [name |-> "NoteModelForm", model_form |-> TRUE,
     base_fields |-> [title |-> "CharField", category |-> "ModelChoiceField",
                      tags |-> "ModelMultipleChoiceField"]]

FormClasses == {NoteForm, NoteModelForm}

\* issubclass(form_class, ModelForm)
IsModelForm(form_class) == form_class.model_form

\* resource.fields: name -> field, a field has .readonly and dehydrates its attribute
NoteResource ==
    [name |-> "NoteResource",
     fields |-> [title    |-> [readonly |-> FALSE, attribute |-> "title"],
                 category |-> [readonly |-> FALSE, attribute |-> "category"],
                 slug     |-> [readonly |-> FALSE, attribute |-> "slug"],
                 author   |-> [readonly |-> FALSE, attribute |-> "author"],
                 id       |-> [readonly |-> TRUE,  attribute |-> "id"]]]

FrozenTitleResource ==
    [name |-> "FrozenTitleResource",
     fields |-> [title    |-> [readonly |-> TRUE,  attribute |-> "title"],
                 category |-> [readonly |-> FALSE, attribute |-> "category"],
                 tags     |-> [readonly |-> FALSE, attribute |-> "tags"],
                 id       |-> [readonly |-> TRUE,  attribute |-> "id"]]]

Resources == {NoteResource, FrozenTitleResource}

UriA5 == StrV(<<"/", "a", "/", "5", "/">>)

UriA7 == StrV(<<"/", "a", "/", "7">>)

\* what the fields of a resource dehydrate from a bundle's object
AttrsStored ==
    [title    |-> StrV(<<"a", "/", "5">>),
     category |-> BundleV([resource_uri |-> UriA5, name |-> StrV(<<"a">>)]),
     tags     |-> ListV(<<UriA5, UriA7>>),
     slug     |-> StrV(<<"/", "a">>),
     author   |-> BundleV([resource_uri |-> UriA7]),
     id       |-> IntV(5)]

AttrsFull ==
    [title    |-> ListV(<<StrV(<<"a", "/", "5">>)>>),
     category |-> DictV([id |-> IntV(7)]),
     tags     |-> ListV(<<BundleV([resource_uri |-> UriA7])>>),
     slug     |-> NoneV,
     author   |-> UriA5,
     id       |-> IntV(7)]

\* bundle.obj: has_pk is hasattr(bundle.obj, 'pk')
Objects == [has_pk : BOOLEAN, attrs : {AttrsStored, AttrsFull}]

\* the values a client may send under each key of bundle.data
Incoming ==
    [title    |-> {StrV(<<"/", "a", "/">>), ListV(<<UriA5>>), ModelV(IntV(5)),
                   DictV([id |-> IntV(7)])},
     category |-> {UriA7, ModelV(IntV(5))},
     tags     |-> {ListV(<<UriA5, ListV(<<ModelV(IntV(7))>>)>>)},
     extra    |-> {IntV(5)}]

DataDicts ==
    UNION {{f \in [S -> UNION {Incoming[k] : k \in S}] : \A k \in S : f[k] \in Incoming[k]}
           : S \in SUBSET (DOMAIN Incoming)}

\* a Bundle: .data is None or a dict, .obj an object
Bundles == [data : {NoneV} \cup {DictV(f) : f \in DataDicts}, obj : Objects]

Requests == {NoneV, StrV(<<"a">>)}

-----------------------------------------------------------------------------
(* model_to_dict *)

\* field.dehydrate(bundle)
Dehydrate(field, b) == b.obj.attrs[field.attribute]

\* the readonly test left out: every resource field is serialized
model_to_dict_WithReadOnly(b, resource) ==
    [name \in DOMAIN resource.fields |->
        LET value == Dehydrate(resource.fields[name], b)
        IN  IF value[1] = "bundle" THEN value[2]["resource_uri"] ELSE value]

model_to_dict(b, resource) ==
    [name \in {n \in DOMAIN resource.fields : ~resource.fields[n].readonly} |->
        LET value == Dehydrate(resource.fields[name], b)
        IN  IF value[1] = "bundle" THEN value[2]["resource_uri"] ELSE value]

-----------------------------------------------------------------------------
(* Validation and FormValidation.  A validator is its class and its        *)
(* attributes; a method yields what it returns or raises and the bundle    *)
(* as it leaves it.                                                        *)

NoValidator == [cls |-> "none", attrs |-> EmptyMap]

\* the keyword arguments a caller may construct a validator with
CtorKwargs ==
    LET other == {EmptyMap, Entry("label", StrV(<<"a">>))}
    IN  other \cup {DictUpdate(o, Entry("form_class", fc)) : o \in other, fc \in FormClasses}

\* Validation.__init__(**kwargs)
Validation_init(kwargs) ==
    [raised |-> "none", self |-> [cls |-> "Validation", attrs |-> EmptyMap]]

\* a stub that objects to a bundle without data
Validation_is_valid_RejectsNone(self, b, resource, request) ==
    [ret |-> IF b.data = NoneV THEN Entry("__all__", <<"No data.">>) ELSE EmptyMap,
     bundle |-> b]

\* Validation.is_valid(bundle, resource, request)
Validation_is_valid(self, b, resource, request) ==
    [ret |-> EmptyMap, bundle |-> b]

\* the membership test left out: kwargs.pop itself fails on a missing key
FormValidation_init_Unchecked(kwargs) ==
    IF ~("form_class" \in DOMAIN kwargs)
    THEN [raised |-> "KeyError", self |-> NoValidator]
    ELSE [raised |-> "none",
          self |-> [cls |-> "FormValidation",
                    attrs |-> Entry("form_class", kwargs["form_class"])]]

\* FormValidation.__init__(**kwargs)
FormValidation_init(kwargs) ==
    IF ~("form_class" \in DOMAIN kwargs)
    THEN [raised |-> "ImproperlyConfigured", self |-> NoValidator]
    ELSE [raised |-> "none",
          self |-> [cls |-> "FormValidation",
                    attrs |-> Entry("form_class", kwargs["form_class"])]]

\* the filter on base_fields left out: all of bundle.data is passed on
form_args_Unfiltered(self, b, resource) ==
    LET form_class  == self.attrs["form_class"]
        bundle_data == IF b.data[1] = "dict" THEN b.data[2] ELSE EmptyMap
        has_pk      == b.obj.has_pk
        instance    == IF has_pk /\ IsModelForm(form_class)
                       THEN Entry("instance", b.obj) ELSE EmptyMap
        merged      == IF has_pk
                       THEN DictUpdate(bundle_data, model_to_dict(b, resource))
                       ELSE bundle_data
        data        == [name \in DOMAIN merged |->
                           IF /\ name \in DOMAIN form_class.base_fields
                              /\ IsRelatedField(form_class.base_fields[name])
                           THEN _prepare_related_value(merged[name])
                           ELSE merged[name]]
    IN  [ret |-> DictUpdate(instance, Entry("data", data)), bundle |-> b]

\* FormValidation.form_args(bundle, resource)
form_args(self, b, resource) ==
    LET form_class  == self.attrs["form_class"]
        bundle_data == IF b.data[1] = "dict" THEN b.data[2] ELSE EmptyMap
        filtered    == [name \in (DOMAIN form_class.base_fields) \cap (DOMAIN bundle_data)
                           |-> bundle_data[name]]
        has_pk      == b.obj.has_pk
        instance    == IF has_pk /\ IsModelForm(form_class)
                       THEN Entry("instance", b.obj) ELSE EmptyMap
        merged      == IF has_pk
                       THEN DictUpdate(filtered, model_to_dict(b, resource))
                       ELSE filtered
        data        == [name \in DOMAIN merged |->
                           IF /\ name \in DOMAIN form_class.base_fields
                              /\ IsRelatedField(form_class.base_fields[name])
                           THEN _prepare_related_value(merged[name])
                           ELSE merged[name]]
    IN  [ret |-> DictUpdate(instance, Entry("data", data)), bundle |-> b]

\* form.is_valid() of django.forms: a bound form is valid iff it has no errors
form_is_valid(form) == form.errors = EmptyMap

\* the values a form field may clean the data it is given to: a relational
\* field yields the model instances it finds, another field the value it was
\* given or a coerced one
CleanValues(form_class, kwargs, name) ==
    IF form_class.base_fields[name] = "ModelChoiceField"
    THEN {ModelV(IntV(5))}
    ELSE IF form_class.base_fields[name] = "ModelMultipleChoiceField"
    THEN {ListV(<<ModelV(IntV(5)), ModelV(IntV(7))>>)}
    ELSE {IF name \in DOMAIN kwargs["data"] THEN kwargs["data"][name] ELSE NoneV,
          StrV(<<"c">>)}

\* self.form_class(**kwargs) after full_clean: the errors and the cleaned data
\* are the form's own; every field either has errors or is cleaned
Forms(form_class, kwargs) ==
    LET names == DOMAIN form_class.base_fields
    IN  UNION {
          {[errors |-> [n \in E |-> <<"This field is required.">>], cleaned_data |-> c]
             : c \in {f \in [names \ E -> UNION {CleanValues(form_class, kwargs, n) : n \in names}]
                        : \A n \in names \ E : f[n] \in CleanValues(form_class, kwargs, n)}}
          : E \in SUBSET names}

\* the overlay the other way round: dehydrated values win over cleaned ones
is_valid_DehydratedWins(self, b, resource, form) ==
    IF form_is_valid(form)
    THEN LET model_data == DictUpdate(form.cleaned_data, model_to_dict(b, resource))
         IN  [ret |-> EmptyMap, bundle |-> [b EXCEPT !.data = DictV(model_data)]]
    ELSE [ret |-> form.errors, bundle |-> b]

\* the write to bundle.data moved ahead of the validity test
is_valid_WritesFirst(self, b, resource, form) ==
    LET model_data == DictUpdate(model_to_dict(b, resource), form.cleaned_data)
        written    == [b EXCEPT !.data = DictV(model_data)]
    IN  IF form_is_valid(form)
        THEN [ret |-> EmptyMap, bundle |-> written]
        ELSE [ret |-> form.errors, bundle |-> written]

\* FormValidation.is_valid(bundle, resource, request), form the form it built
is_valid(self, b, resource, form) ==
    IF form_is_valid(form)
    THEN LET model_data == DictUpdate(model_to_dict(b, resource), form.cleaned_data)
         IN  [ret |-> EmptyMap, bundle |-> [b EXCEPT !.data = DictV(model_data)]]
    ELSE [ret |-> form.errors, bundle |-> b]

-----------------------------------------------------------------------------
(* The state: the validator under use, the bundle, and the last call.      *)

NoCall ==
    [op |-> "none", self |-> NoValidator, kwargs |-> EmptyMap, bundle |-> NoneV,
     resource |-> NoneV, request |-> NoneV, value |-> NoneV, form |-> NoneV,
     ret |-> EmptyMap, raised |-> "none"]

Init ==
    /\ validator = NoValidator
    /\ bundle \in Bundles
    /\ call = NoCall

ConstructValidation ==
    /\ validator = NoValidator
    /\ \E kwargs \in CtorKwargs :
        LET r == Validation_init(kwargs)
        IN  /\ validator' = r.self
            /\ call' = [NoCall EXCEPT !.op = "Validation.__init__",
                                      !.self = validator, !.kwargs = kwargs,
                                      !.raised = r.raised]
            /\ UNCHANGED bundle

ConstructFormValidation ==
    /\ validator = NoValidator
    /\ \E kwargs \in CtorKwargs :
        LET r == FormValidation_init(kwargs)
        IN  /\ validator' = IF r.raised = "none" THEN r.self ELSE validator
            /\ call' = [NoCall EXCEPT !.op = "FormValidation.__init__",
                                      !.self = validator, !.kwargs = kwargs,
                                      !.raised = r.raised]
            /\ UNCHANGED bundle

ValidationIsValid ==
    /\ validator.cls = "Validation"
    /\ \E resource \in Resources, request \in Requests :
        LET r == Validation_is_valid(validator, bundle, resource, request)
        IN  /\ bundle' = r.bundle
            /\ call' = [NoCall EXCEPT !.op = "Validation.is_valid",
                                      !.self = validator, !.bundle = bundle,
                                      !.resource = resource, !.request = request,
                                      !.ret = r.ret]
            /\ UNCHANGED validator

FormArgs ==
    /\ validator.cls = "FormValidation"
    /\ \E resource \in Resources :
        LET r == form_args(validator, bundle, resource)
        IN  /\ bundle' = r.bundle
            /\ call' = [NoCall EXCEPT !.op = "FormValidation.form_args",
                                      !.self = validator, !.bundle = bundle,
                                      !.resource = resource, !.ret = r.ret]
            /\ UNCHANGED validator

FormValidationIsValid ==
    /\ validator.cls = "FormValidation"
    /\ \E resource \in Resources, request \in {NoneV} :
        LET a == form_args(validator, bundle, resource)
        IN  \E form \in Forms(validator.attrs["form_class"], a.ret) :
              LET r == is_valid(validator, a.bundle, resource, form)
              IN  /\ bundle' = r.bundle
                  /\ call' = [NoCall EXCEPT !.op = "FormValidation.is_valid",
                                            !.self = validator, !.bundle = bundle,
                                            !.resource = resource, !.request = request,
                                            !.kwargs = a.ret, !.form = form,
                                            !.ret = r.ret]
                  /\ UNCHANGED validator

Next ==
    \/ ConstructValidation
    \/ ConstructFormValidation
    \/ ValidationIsValid
    \/ FormArgs
    \/ FormValidationIsValid

Spec == Init /\ [][Next]_vars

-----------------------------------------------------------------------------
(* _prepare_related_value on its own: every value up to the bounds is      *)
(* handed to it.                                                           *)

Chars == {"/", "a", "5"}

Strings == UNION {[1..n -> Chars] : n \in 0..MaxStrLen}

\* the lists of at most two items of S
ListsOver(S) == {ListV(items) : items \in UNION {[1..n -> S] : n \in 0..2}}

ListAtoms == {UriA5, ModelV(IntV(5)), DictV([id |-> IntV(7)])}

RECURSIVE Nested(_)
Nested(depth) ==
    IF depth = 0 THEN ListAtoms ELSE ListAtoms \cup ListsOver(Nested(depth - 1))

Values ==
    {StrV(str) : str \in Strings}
      \cup Nested(MaxDepth)
      \cup {NoneV, ListV(<<NoneV, UriA7>>), ListV(<<ListV(<<IntV(5)>>), DictV(EmptyMap)>>),
            IntV(5), ModelV(StrV(<<"a">>)), BundleV([resource_uri |-> UriA5]),
            DictV(EmptyMap), DictV([name |-> UriA5]),
            DictV([id |-> UriA5, name |-> IntV(5)]),
            DictV([id |-> ListV(<<UriA5>>)])}

InitPrepare ==
    /\ validator = FormValidation_init(Entry("form_class", NoteForm)).self
    /\ bundle = [data |-> NoneV, obj |-> [has_pk |-> FALSE, attrs |-> AttrsStored]]
    /\ \E value \in Values : call = [NoCall EXCEPT !.value = value]

PrepareRelatedValue ==
    /\ validator.cls = "FormValidation"
    /\ call.op = "none"
    /\ call' = [call EXCEPT !.op = "_prepare_related_value", !.self = validator,
                            !.ret = _prepare_related_value(call.value)]
    /\ UNCHANGED <<validator, bundle>>

NextPrepare == PrepareRelatedValue

SpecPrepare == InitPrepare /\ [][NextPrepare]_vars

-----------------------------------------------------------------------------
(* C6 *)

\* the identifier of a string, by position: the run of non-slash characters
\* that ends at the last non-slash character; empty when there is none
RefIdentifier(str) ==
    LET solid == {i \in 1..Len(str) : str[i] # "/"}
    IN  IF solid = {}
        THEN <<>>
        ELSE LET last  == CHOOSE i \in solid : \A j \in solid : j <= i
                 first == CHOOSE i \in 1..last :
                              /\ \A j \in i..last : str[j] # "/"
                              /\ (i = 1 \/ str[i - 1] = "/")
             IN  SubSeq(str, first, last)

RECURSIVE RefNormalized(_)
RefNormalized(value) ==
    CASE value[1] = "list" ->
           ListV([i \in 1..Len(value[2]) |-> RefNormalized(value[2][i])])
      [] value[1] = "model" -> value[2]
      [] value[1] = "dict" /\ "id" \in DOMAIN value[2] -> value[2]["id"]
      [] value[1] = "str" -> StrV(RefIdentifier(value[2]))
      [] OTHER -> value

\* C6: _prepare_related_value maps a list to the list of the normalizations of
\* its items (same length, same order, recursively), a model instance to its
\* primary key, a mapping containing 'id' to its 'id' entry, a string to its
\* last '/'-separated segment once the surrounding slashes are stripped, and
\* returns every other value unchanged.
C6_PrepareRelatedValue ==
    call.op = "_prepare_related_value" =>
        /\ call.ret = RefNormalized(call.value)
        /\ call.value[1] = "list" =>
              /\ call.ret[1] = "list"
              /\ Len(call.ret[2]) = Len(call.value[2])
        /\ call.value = UriA5 => call.ret = StrV(<<"5">>)
        /\ call.value = ListV(<<ModelV(IntV(5)), ModelV(IntV(5))>>)
              => call.ret = ListV(<<IntV(5), IntV(5)>>)

\* a URI and a nested list of model instances were normalized in one list
C6_Witness ==
    /\ call.op = "_prepare_related_value"
    /\ call.value = ListV(<<UriA5, ListV(<<ModelV(IntV(5))>>)>>)
    /\ call.ret = ListV(<<StrV(<<"5">>), ListV(<<IntV(5)>>)>>)

-----------------------------------------------------------------------------
(* What the claims speak of, read off the last call *)

IsFormValidationIsValid == call.op = "FormValidation.is_valid"

IsFormArgs == call.op = "FormValidation.form_args"

\* the keyword arguments the last call prepared for the form
PreparedKwargs == IF IsFormArgs THEN call.ret ELSE call.kwargs

\* the incoming bundle.data of the last call, {} when it is None
IncomingData == IF call.bundle.data[1] = "dict" THEN call.bundle.data[2] ELSE EmptyMap

\* the declared fields of the form class of the last call's validator
DeclaredFields == call.self.attrs["form_class"].base_fields

\* the non-read-only fields of the last call's resource
WritableFields ==
    {n \in DOMAIN call.resource.fields : call.resource.fields[n].readonly = FALSE}

ReadOnlyFields ==
    {n \in DOMAIN call.resource.fields : call.resource.fields[n].readonly = TRUE}

\* what resource field n dehydrates to for the last call's bundle, a nested
\* Bundle replaced by its 'resource_uri'
Serialized(n) ==
    LET v == call.bundle.obj.attrs[call.resource.fields[n].attribute]
    IN  IF v[1] = "bundle" THEN v[2]["resource_uri"] ELSE v

OnUpdatePath == call.bundle.obj.has_pk

\* v as the form receives it under name n: normalized iff n is a relational field
AsReceived(n, v) ==
    IF n \in DOMAIN DeclaredFields
         /\ DeclaredFields[n] \in {"ModelChoiceField", "ModelMultipleChoiceField"}
    THEN RefNormalized(v)
    ELSE v

-----------------------------------------------------------------------------
(* C1 *)

-----------------------------------------------------------------------------
(* C2 *)

\* C2: when the form does not validate, FormValidation.is_valid returns the
\* form's errors unchanged without raising, the mapping is non-empty, and
\* bundle.data and bundle.obj are as before the call.
C2_InvalidReturnsErrorsBundleKept ==
    (IsFormValidationIsValid /\ ~form_is_valid(call.form)) =>
        /\ call.raised = "none"
        /\ call.ret = call.form.errors
        /\ DOMAIN call.ret # {}
        /\ \A n \in DOMAIN call.ret : Len(call.ret[n]) >= 1
        /\ bundle.data = call.bundle.data
        /\ bundle.obj = call.bundle.obj

\* an update with incoming data was rejected for its title
C2_Witness ==
    /\ IsFormValidationIsValid
    /\ OnUpdatePath
    /\ "title" \in DOMAIN IncomingData
    /\ "title" \in DOMAIN call.ret
    /\ "data" \in DOMAIN call.kwargs

\* a create was rejected as well
C2_WitnessCreate ==
    /\ IsFormValidationIsValid
    /\ ~OnUpdatePath
    /\ call.bundle.data = NoneV
    /\ DOMAIN call.ret = {"category"}

-----------------------------------------------------------------------------
(* C3 *)

\* C3: constructing a FormValidation without 'form_class' raises
\* ImproperlyConfigured and leaves no validator behind; with 'form_class' it
\* succeeds and stores exactly that class; no FormValidation lacks a
\* form_class, and neither form_args nor is_valid ever runs on one that does.
C3_FormClassRequired ==
    /\ (call.op = "FormValidation.__init__" /\ ~("form_class" \in DOMAIN call.kwargs)) =>
          /\ call.raised = "ImproperlyConfigured"
          /\ validator = NoValidator
    /\ (call.op = "FormValidation.__init__" /\ "form_class" \in DOMAIN call.kwargs) =>
          /\ call.raised = "none"
          /\ validator.cls = "FormValidation"
          /\ DOMAIN validator.attrs = {"form_class"}
          /\ validator.attrs["form_class"] = call.kwargs["form_class"]
    /\ validator.cls = "FormValidation" =>
          /\ "form_class" \in DOMAIN validator.attrs
          /\ validator.attrs["form_class"] \in FormClasses
    /\ (IsFormValidationIsValid \/ IsFormArgs) =>
          "form_class" \in DOMAIN call.self.attrs

\* a construction with keyword arguments but no form_class was refused
C3_Witness ==
    /\ call.op = "FormValidation.__init__"
    /\ DOMAIN call.kwargs = {"label"}
    /\ call.raised = "ImproperlyConfigured"
    /\ validator = NoValidator

-----------------------------------------------------------------------------
(* C4 *)

-----------------------------------------------------------------------------
(* C5 *)

\* C5: on the update path the dehydrated serialization is base data: for every
\* declared form field that is in the incoming bundle.data and is a
\* non-read-only resource field, the form receives the incoming value
\* (normalized if the field is relational), not the dehydrated one.
C5_IncomingWinsOverDehydrated ==
    ((IsFormArgs \/ IsFormValidationIsValid) /\ OnUpdatePath) =>
        \A n \in (DOMAIN DeclaredFields) \cap (DOMAIN IncomingData) \cap WritableFields :
            PreparedKwargs["data"][n] = AsReceived(n, IncomingData[n])

-----------------------------------------------------------------------------
(* C7 *)

\* C7: FormValidation only verifies the data: whether the form validates or
\* not, bundle.data after is_valid is the mapping it was before the call.
C7_DataNotAltered ==
    IsFormValidationIsValid => bundle.data = call.bundle.data

-----------------------------------------------------------------------------
(* C8 *)

\* C8: Validation.is_valid returns an empty mapping for every bundle, resource
\* and request, whatever was called before, and leaves the bundle as it was.
C8_StubAlwaysValid ==
    call.op = "Validation.is_valid" =>
        /\ call.ret = EmptyMap
        /\ call.raised = "none"
        /\ bundle.data = call.bundle.data
        /\ bundle.obj = call.bundle.obj

\* the stub accepted a bundle without data and a request of None
C8_Witness ==
    /\ call.op = "Validation.is_valid"
    /\ call.bundle.data = NoneV
    /\ call.request = NoneV
    /\ call.ret = EmptyMap

-----------------------------------------------------------------------------
(* C9 *)

-----------------------------------------------------------------------------
(* C10 *)

\* C10: a declared form field that is neither a ModelChoiceField nor a
\* ModelMultipleChoiceField receives the very value it was taken from, the
\* incoming one or the dehydrated one, whatever its shape, and form_args
\* leaves bundle.data and the lists in it as they were.
C10_OnlyRelatedFieldsNormalized ==
    IsFormArgs =>
        /\ \A n \in DOMAIN call.ret["data"] :
              (n \in DOMAIN DeclaredFields /\ DeclaredFields[n] = "CharField") =>
                  call.ret["data"][n] \in
                      {IncomingData[m] : m \in {n} \cap DOMAIN IncomingData}
                        \cup {Serialized(m) : m \in {k \in {n} \cap WritableFields : OnUpdatePath}}
        /\ bundle.data = call.bundle.data
        /\ bundle.obj = call.bundle.obj

\* a title with slashes went through as sent while the category beside it was
\* cut to its identifier
C10_Witness ==
    /\ IsFormArgs
    /\ ~OnUpdatePath
    /\ {"title", "category"} \subseteq DOMAIN IncomingData
    /\ IncomingData["title"] = StrV(<<"/", "a", "/">>)
    /\ call.ret["data"]["title"] = StrV(<<"/", "a", "/">>)
    /\ IncomingData["category"] = UriA7
    /\ call.ret["data"]["category"] = StrV(<<"7">>)

====
